---- MODULE Spec2Model ----
(***************************************************************************)
(* Model of the text-to-ZIP converter: convertTextToZipBlob (line reversal *)
(* plus base64 decoding through the platform's atob) and getZipFileList    *)
(* (backward EOCD search and central-directory walk over a DataView).      *)
(*                                                                         *)
(* Text is a sequence of UTF-16 code units, a buffer a sequence of bytes;  *)
(* offset o of a buffer is element o + 1 of the sequence.                  *)
(***************************************************************************)
EXTENDS Integers, Sequences, FiniteSets, TLC

VARIABLES textContent, origin, conv, blob, layout, scan

\* The page: which of the two implementations runs (script.js or the
\* Converter component), its state, the processFile invocations and whether
\* the file picker is open.
VARIABLES impl, state, calls, pickerOpen

vars == <<textContent, origin, conv, blob, layout, scan,
          impl, state, calls, pickerOpen>>

(***************************************************************************)
(* Bounds of the checked input sets.                                       *)
(***************************************************************************)
MaxText == 4
MaxBytes == 4
MaxCuts == 2
MaxEntries == 2
\* processFile invocations that may be running at the same time
MaxCalls == 2

NoValue == [kind |-> "none"]

(***************************************************************************)
(* Code units.                                                             *)
(***************************************************************************)
TAB == 9
LF == 10
VT == 11
FF == 12
CR == 13
SPACE == 32
NBSP == 160
PLUS == 43
SLASH == 47
EQUALS == 61

\* the characters matched by the regular expression class \s
IsRegexWhitespace(c) ==
    \/ c \in {TAB, LF, VT, FF, CR, SPACE, NBSP, 5760, 8232, 8233, 8239, 8287, 12288, 65279}
    \/ c \in 8192..8202

\* ASCII whitespace, which atob removes before decoding
IsAsciiWhitespace(c) == c \in {TAB, LF, FF, CR, SPACE}

(***************************************************************************)
(* textContent.split(/\r?\n/)                                              *)
(***************************************************************************)
\* The matches of /\r?\n/ end at the line feeds; a carriage return just
\* before one belongs to the match.  (Written without recursion: texts of
\* a hundred characters and more are split.)
lineFeeds(text) == {i \in 1..Len(text) : text[i] = LF}

\* where the k-th line starts, and where it ends
lineStart(text, k) ==
    IF k = 1 THEN 1
    ELSE 1 + CHOOSE i \in lineFeeds(text) :
                 Cardinality({j \in lineFeeds(text) : j <= i}) = k - 1

lineEnd(text, k) ==
    IF k = Cardinality(lineFeeds(text)) + 1 THEN Len(text)
    ELSE LET lf == CHOOSE i \in lineFeeds(text) :
                      Cardinality({j \in lineFeeds(text) : j <= i}) = k
         IN  IF lf - 1 >= lineStart(text, k) /\ text[lf - 1] = CR
             THEN lf - 2 ELSE lf - 1

split(text) ==
    [k \in 1..(Cardinality(lineFeeds(text)) + 1) |->
        SubSeq(text, lineStart(text, k), lineEnd(text, k))]

(***************************************************************************)
(* lines.reverse()                                                         *)
(***************************************************************************)
reverseIdentity(lines) == lines

reverse(lines) == [k \in 1..Len(lines) |-> lines[Len(lines) + 1 - k]]

(***************************************************************************)
(* reversedLines.join('')                                                  *)
(***************************************************************************)
RECURSIVE join(_)
join(lines) == IF lines = <<>> THEN <<>> ELSE Head(lines) \o join(Tail(lines))

(***************************************************************************)
(* base64String.replace(/\s/g, '')                                         *)
(***************************************************************************)
replaceWhitespaceSpacesOnly(str) == SelectSeq(str, LAMBDA c : c # SPACE)

replaceWhitespace(str) == SelectSeq(str, LAMBDA c : ~IsRegexWhitespace(c))

(***************************************************************************)
(* atob: the forgiving-base64 decode of the HTML standard.                 *)
(***************************************************************************)
IsBase64CharAny(c) == TRUE

IsBase64Char(c) ==
    \/ c \in 65..90
    \/ c \in 97..122
    \/ c \in 48..57
    \/ c = PLUS
    \/ c = SLASH

Base64Index(c) ==
    IF c \in 65..90 THEN c - 65
    ELSE IF c \in 97..122 THEN c - 97 + 26
    ELSE IF c \in 48..57 THEN c - 48 + 52
    ELSE IF c = PLUS THEN 62
    ELSE IF c = SLASH THEN 63
    ELSE 0

\* step 2: a length divisible by 4 loses one or two trailing '='
removePaddingAlways(data) ==
    IF Len(data) >= 1 /\ data[Len(data)] = EQUALS
    THEN IF Len(data) >= 2 /\ data[Len(data) - 1] = EQUALS
         THEN SubSeq(data, 1, Len(data) - 2)
         ELSE SubSeq(data, 1, Len(data) - 1)
    ELSE data

removePadding(data) ==
    IF Len(data) % 4 = 0 /\ Len(data) >= 1 /\ data[Len(data)] = EQUALS
    THEN IF data[Len(data) - 1] = EQUALS
         THEN SubSeq(data, 1, Len(data) - 2)
         ELSE SubSeq(data, 1, Len(data) - 1)
    ELSE data

\* steps 6-9: 6 bits a character, a byte for every 8 bits gathered; the 2 or
\* 4 bits left at the end are dropped.  Byte k is made of bits 8(k-1) to
\* 8k-1 of the stream, which lie in two adjacent characters.
decodeBits(data) ==
    [k \in 1..((6 * Len(data)) \div 8) |->
        LET first == (8 * (k - 1)) \div 6 + 1
            used == (8 * (k - 1)) % 6
            pair == Base64Index(data[first]) * 64 + Base64Index(data[first + 1])
        IN  (pair \div (2 ^ (4 - used))) % 256]

\* the result: either the binary string or the InvalidCharacterError
atob(str) ==
    LET stripped == SelectSeq(str, LAMBDA c : ~IsAsciiWhitespace(c))
        data == removePadding(stripped)
    IN  IF Len(data) % 4 = 1
        THEN [threw |-> TRUE, value |-> <<>>]
        ELSE IF \E k \in 1..Len(data) : ~IsBase64Char(data[k])
        THEN [threw |-> TRUE, value |-> <<>>]
        ELSE [threw |-> FALSE, value |-> decodeBits(data)]

(***************************************************************************)
(* convertTextToZipBlob                                                    *)
(***************************************************************************)
EmptyMessage == "Resulting string is empty."
InvalidMessage == "Invalid Base64 content. Please ensure the file contains valid Base64 parts."

base64StringOf(text) == replaceWhitespace(join(reverse(split(text))))

convertTextToZipBlob(text) ==
    LET base64String == base64StringOf(text)
    IN  IF base64String = <<>>
        THEN [kind |-> "error", message |-> EmptyMessage, bytes |-> <<>>]
        ELSE LET binaryString == atob(base64String)
             IN  IF binaryString.threw
                 THEN [kind |-> "error", message |-> InvalidMessage, bytes |-> <<>>]
                 ELSE [kind |-> "blob", message |-> "",
                       bytes |-> [k \in 1..Len(binaryString.value) |->
                                     binaryString.value[k] % 256]]

(***************************************************************************)
(* Blob.arrayBuffer(), DataView and Uint8Array                             *)
(***************************************************************************)
CENTRAL_HEADER_SIGNATURE == 33639248 \* 0x02014b50

EOCD_SIGNATURE_OF_HEADER == CENTRAL_HEADER_SIGNATURE

EOCD_SIGNATURE == 101010256         \* 0x06054b50

Min(a, b) == IF a < b THEN a ELSE b
Max(a, b) == IF a > b THEN a ELSE b

\* DataView raises a RangeError for an access outside the buffer
inBounds(buf, o, w) == o >= 0 /\ o + w <= Len(buf)

getUint16(buf, o) == buf[o + 1] + 256 * buf[o + 2]

\* A 32-bit unsigned value is kept as its two 16-bit halves: the values from
\* 2^31 on, which getUint32 returns as ordinary numbers, are beyond the
\* integers of the model checker.
Wide(n) == [hi |-> n \div 65536, lo |-> n % 65536]
Narrow(w) == w.hi * 65536 + w.lo
FitsInt(w) == w.hi < 32768

getUint32(buf, o) ==
    [hi |-> buf[o + 3] + 256 * buf[o + 4], lo |-> buf[o + 1] + 256 * buf[o + 2]]

\* u8.subarray(begin, end): both ends are clamped to the buffer
subarray(buf, begin, end) ==
    LET b == Min(Max(begin, 0), Len(buf))
        e == Min(Max(end, 0), Len(buf))
    IN  IF e <= b THEN <<>> ELSE SubSeq(buf, b + 1, e)

(***************************************************************************)
(* new TextDecoder("utf-8").decode(nameBytes): the UTF-8 decoder of the    *)
(* Encoding standard, not fatal, byte order mark removed; the result is a  *)
(* sequence of UTF-16 code units.                                          *)
(***************************************************************************)
REPLACEMENT == 65533
BOM == 65279

codeUnits(cp) ==
    IF cp > 65535
    THEN <<55296 + ((cp - 65536) \div 1024), 56320 + ((cp - 65536) % 1024)>>
    ELSE <<cp>>

RECURSIVE utf8Decode(_, _, _, _, _, _, _, _)
utf8Decode(bytes, i, cp, needed, seen, lower, upper, out) ==
    IF i > Len(bytes)
    THEN IF needed # 0 THEN Append(out, REPLACEMENT) ELSE out
    ELSE LET b == bytes[i]
         IN  IF needed = 0
             THEN IF b <= 127
                  THEN utf8Decode(bytes, i + 1, 0, 0, 0, 128, 191, Append(out, b))
                  ELSE IF b \in 194..223
                  THEN utf8Decode(bytes, i + 1, b % 32, 1, 0, 128, 191, out)
                  ELSE IF b \in 224..239
                  THEN utf8Decode(bytes, i + 1, b % 16, 2, 0,
                                  IF b = 224 THEN 160 ELSE 128,
                                  IF b = 237 THEN 159 ELSE 191, out)
                  ELSE IF b \in 240..244
                  THEN utf8Decode(bytes, i + 1, b % 8, 3, 0,
                                  IF b = 240 THEN 144 ELSE 128,
                                  IF b = 244 THEN 143 ELSE 191, out)
                  ELSE utf8Decode(bytes, i + 1, 0, 0, 0, 128, 191,
                                  Append(out, REPLACEMENT))
             ELSE IF b \notin lower..upper
                  \* the byte is put back and read again as a lead byte
                  THEN utf8Decode(bytes, i, 0, 0, 0, 128, 191,
                                  Append(out, REPLACEMENT))
                  ELSE IF seen + 1 = needed
                  THEN utf8Decode(bytes, i + 1, 0, 0, 0, 128, 191,
                                  out \o codeUnits(cp * 64 + (b % 64)))
                  ELSE utf8Decode(bytes, i + 1, cp * 64 + (b % 64), needed,
                                  seen + 1, 128, 191, out)

TextDecode(bytes) ==
    LET units == utf8Decode(bytes, 1, 0, 0, 0, 128, 191, <<>>)
    IN  IF units # <<>> /\ units[1] = BOM THEN Tail(units) ELSE units

(***************************************************************************)
(* getZipFileList: the search for the end of central directory record      *)
(***************************************************************************)
EOCD_MIN_SIZE == 22
MAX_COMMENT == 65535
HEADER_SIZE == 46

Read(what, off, end) == [what |-> what, off |-> off, end |-> end]

\* a window that has no room for a comment
maxScanNoComment(len) == Min(len, EOCD_MIN_SIZE)

\* const maxScan = Math.min(len, 65535 + 22)
maxScan(len) == Min(len, MAX_COMMENT + EOCD_MIN_SIZE)

\* The loop for (let i = len - 22; i >= len - maxScan; i--) in closed form
\* (the evaluator's stack is too small for one recursion per offset).
\* The loop ends at the highest offset of start, start - 1, ..., lo that
\* matches the signature or lies outside the buffer; the reads made are those
\* of the offsets from start down to that one.
eocdReads(start, last) ==
    [k \in 1..(start - last + 1) |->
        Read("eocdSignature", start - k + 1, start - k + 5)]

\* the same loop without its break: the last match, the lowest, is kept
searchEocdNoBreak(buf, start, lo, st) ==
    LET bad == {i \in lo..start : ~inBounds(buf, i, 4)}
        hits == {i \in lo..start :
                    inBounds(buf, i, 4) /\ getUint32(buf, i) = Wide(EOCD_SIGNATURE)}
    IN  IF bad # {}
        THEN LET top == CHOOSE i \in bad : \A j \in bad : j <= i
             IN  [st EXCEPT !.threw = TRUE, !.reads = @ \o eocdReads(start, top)]
        ELSE IF hits = {}
        THEN [st EXCEPT !.reads = @ \o eocdReads(start, lo)]
        ELSE [st EXCEPT !.eocdOffset = CHOOSE i \in hits : \A j \in hits : i <= j,
                        !.reads = @ \o eocdReads(start, lo)]

searchEocd(buf, start, lo, st) ==
    LET bad == {i \in lo..start : ~inBounds(buf, i, 4)}
        hits == {i \in lo..start :
                    inBounds(buf, i, 4) /\ getUint32(buf, i) = Wide(EOCD_SIGNATURE)}
        stops == bad \cup hits
    IN  IF stops = {}
        THEN [st EXCEPT !.reads = @ \o eocdReads(start, lo)]
        ELSE LET top == CHOOSE i \in stops : \A j \in stops : j <= i
             IN  IF top \in bad
                 THEN [st EXCEPT !.threw = TRUE, !.reads = @ \o eocdReads(start, top)]
                 ELSE [st EXCEPT !.eocdOffset = top,
                                 !.reads = @ \o eocdReads(start, top)]

(***************************************************************************)
(* getZipFileList: the walk over the central directory                     *)
(***************************************************************************)
walkContinuesInclusive(i, entriesCount) == i <= entriesCount

\* i < entriesCount
walkContinues(i, entriesCount) == i < entriesCount

\* room for the signature only
headerOutOfBoundsSignatureOnly(offset, len) ==
    ~FitsInt(offset) \/ Narrow(offset) > len - 4

\* if (offset + 46 > len) break, for an offset in two halves and len < 2^31
headerOutOfBounds(offset, len) ==
    ~FitsInt(offset) \/ Narrow(offset) > len - HEADER_SIZE

nextOffsetWithoutHeader(offset, fileNameLen, extraFieldLen, fileCommentLen) ==
    offset + fileNameLen + extraFieldLen + fileCommentLen

nextOffsetNameOnly(offset, fileNameLen, extraFieldLen, fileCommentLen) ==
    offset + HEADER_SIZE + fileNameLen

\* offset += 46 + fileNameLen + extraFieldLen + fileCommentLen
nextOffset(offset, fileNameLen, extraFieldLen, fileCommentLen) ==
    offset + HEADER_SIZE + fileNameLen + extraFieldLen + fileCommentLen

signatureMatchesAlways(buf, offset) == TRUE

\* view.getUint32(offset, true) !== 0x02014b50 is the negation of this
signatureMatches(buf, offset) ==
    getUint32(buf, offset) = Wide(CENTRAL_HEADER_SIGNATURE)

RECURSIVE walk(_, _, _, _)
walk(buf, i, wideOffset, st) ==
    IF ~walkContinues(i, st.entriesCount) THEN st
    ELSE IF headerOutOfBounds(wideOffset, Len(buf)) THEN st
    ELSE LET offset == Narrow(wideOffset)
         IN
    IF ~inBounds(buf, offset, 4)
    THEN [st EXCEPT !.threw = TRUE,
                    !.reads = Append(@, Read("headerSignature", offset, offset + 4))]
    ELSE IF ~signatureMatches(buf, offset)
    THEN [st EXCEPT !.reads = Append(@, Read("headerSignature", offset, offset + 4))]
    ELSE IF ~inBounds(buf, offset + 28, 6)
    THEN [st EXCEPT !.threw = TRUE,
                    !.reads = @ \o <<Read("headerSignature", offset, offset + 4),
                                     Read("fileNameLen", offset + 28, offset + 30)>>]
    ELSE LET fileNameLen == getUint16(buf, offset + 28)
             extraFieldLen == getUint16(buf, offset + 30)
             fileCommentLen == getUint16(buf, offset + 32)
             nameBytes == subarray(buf, offset + HEADER_SIZE,
                                   offset + HEADER_SIZE + fileNameLen)
             fileName == TextDecode(nameBytes)
         IN  walk(buf, i + 1,
                  Wide(nextOffset(offset, fileNameLen, extraFieldLen, fileCommentLen)),
                  [st EXCEPT
                     !.files = Append(@, fileName),
                     !.reads = @ \o
                        <<Read("headerSignature", offset, offset + 4),
                          Read("fileNameLen", offset + 28, offset + 30),
                          Read("extraFieldLen", offset + 30, offset + 32),
                          Read("fileCommentLen", offset + 32, offset + 34),
                          Read("name", offset + HEADER_SIZE,
                               offset + HEADER_SIZE + fileNameLen)>>])

(***************************************************************************)
(* getZipFileList: the body of the try block                               *)
(***************************************************************************)
ScanStart ==
    [threw |-> FALSE, eocdOffset |-> -1, entriesCount |-> 0,
     centralDirOffset |-> Wide(0), files |-> <<>>, reads |-> <<>>]

tryBody(b) ==
    IF ~b.readable
    THEN [ScanStart EXCEPT !.threw = TRUE]       \* blob.arrayBuffer() rejects
    ELSE LET buf == b.bytes
             len == Len(buf)
             found == searchEocd(buf, len - EOCD_MIN_SIZE, len - maxScan(len), ScanStart)
         IN  IF found.threw \/ found.eocdOffset = -1 THEN found
             ELSE IF ~inBounds(buf, found.eocdOffset + 10, 2)
             THEN [found EXCEPT !.threw = TRUE,
                     !.reads = Append(@, Read("entriesCount", found.eocdOffset + 10,
                                              found.eocdOffset + 12))]
             ELSE IF ~inBounds(buf, found.eocdOffset + 16, 4)
             THEN [found EXCEPT !.threw = TRUE,
                     !.reads = @ \o
                        <<Read("entriesCount", found.eocdOffset + 10, found.eocdOffset + 12),
                          Read("centralDirOffset", found.eocdOffset + 16,
                               found.eocdOffset + 20)>>]
             ELSE LET entriesCount == getUint16(buf, found.eocdOffset + 10)
                      centralDirOffset == getUint32(buf, found.eocdOffset + 16)
                  IN  walk(buf, 0, centralDirOffset,
                           [found EXCEPT
                              !.entriesCount = entriesCount,
                              !.centralDirOffset = centralDirOffset,
                              !.reads = @ \o
                                 <<Read("entriesCount", found.eocdOffset + 10,
                                        found.eocdOffset + 12),
                                   Read("centralDirOffset", found.eocdOffset + 16,
                                        found.eocdOffset + 20)>>])

(***************************************************************************)
(* getZipFileList: try { ... } catch (err) { return []; }                  *)
(* settled is how the returned promise ends; caught tells that the catch   *)
(* block produced the result.                                              *)
(***************************************************************************)
getZipFileListNoCatch(b) ==
    LET r == tryBody(b)
    IN  [kind |-> "scanned",
         settled |-> IF r.threw THEN "rejected" ELSE "fulfilled",
         caught |-> FALSE,
         files |-> r.files,
         eocdOffset |-> r.eocdOffset, entriesCount |-> r.entriesCount,
         centralDirOffset |-> r.centralDirOffset, reads |-> r.reads]

getZipFileList(b) ==
    LET r == tryBody(b)
    IN  [kind |-> "scanned",
         settled |-> "fulfilled",
         caught |-> r.threw,
         files |-> IF r.threw THEN <<>> ELSE r.files,
         eocdOffset |-> r.eocdOffset, entriesCount |-> r.entriesCount,
         centralDirOffset |-> r.centralDirOffset, reads |-> r.reads]

(***************************************************************************)
(* The producer of the input text: base64 encoding (btoa), cut into lines  *)
(* that are stored last line first.                                        *)
(***************************************************************************)
Base64Char(v) ==
    IF v < 26 THEN 65 + v
    ELSE IF v < 52 THEN 97 + (v - 26)
    ELSE IF v < 62 THEN 48 + (v - 52)
    ELSE IF v = 62 THEN PLUS
    ELSE SLASH

RECURSIVE btoa(_)
btoa(bytes) ==
    IF Len(bytes) = 0 THEN <<>>
    ELSE IF Len(bytes) = 1
    THEN <<Base64Char(bytes[1] \div 4), Base64Char((bytes[1] % 4) * 16),
           EQUALS, EQUALS>>
    ELSE IF Len(bytes) = 2
    THEN <<Base64Char(bytes[1] \div 4),
           Base64Char((bytes[1] % 4) * 16 + (bytes[2] \div 16)),
           Base64Char((bytes[2] % 16) * 4), EQUALS>>
    ELSE <<Base64Char(bytes[1] \div 4),
           Base64Char((bytes[1] % 4) * 16 + (bytes[2] \div 16)),
           Base64Char((bytes[2] % 16) * 4 + (bytes[3] \div 64)),
           Base64Char(bytes[3] % 64)>> \o btoa(SubSeq(bytes, 4, Len(bytes)))

\* the lines of str when it is cut after each position of cuts
RECURSIVE PiecesFrom(_, _, _)
PiecesFrom(str, start, cuts) ==
    LET later == {c \in cuts : c > start}
    IN  IF later = {} THEN <<SubSeq(str, start + 1, Len(str))>>
        ELSE LET c == CHOOSE x \in later : \A y \in later : x <= y
             IN  <<SubSeq(str, start + 1, c)>> \o PiecesFrom(str, c, cuts)

RECURSIVE JoinWith(_, _)
JoinWith(lines, sep) ==
    IF Len(lines) = 1 THEN lines[1]
    ELSE lines[1] \o sep \o JoinWith(Tail(lines), sep)

Stacked(lines) == [k \in 1..Len(lines) |-> lines[Len(lines) + 1 - k]]

Obfuscate(bytes, cuts, sep) == JoinWith(Stacked(PiecesFrom(btoa(bytes), 0, cuts)), sep)

SeqsUpTo(S, n) == UNION {[1..k -> S] : k \in 0..n}

ByteSamples == {0, 77, 255}
\* Q, R, '=', '!', and white space of both kinds: the kind atob skips and
\* the kind only the regular expression removes
TextChars == {81, 82, EQUALS, 33, SPACE, LF, CR, NBSP}
Separators == {<<LF>>, <<CR, LF>>}

CutSets(n) == {c \in SUBSET (1..(n - 1)) : Cardinality(c) <= MaxCuts}

Typed == [kind |-> "typed", bytes |-> <<>>, cuts |-> {}, sep |-> <<>>]

(***************************************************************************)
(* The byte buffers handed to getZipFileList: records laid out as in the   *)
(* ZIP format, with the defects the scanner has to survive.                *)
(***************************************************************************)
Zeros(n) == [k \in 1..n |-> 0]
LE16(v) == <<v % 256, (v \div 256) % 256>>
LE32(v) == <<v % 256, (v \div 256) % 256, (v \div 65536) % 256, (v \div 16777216) % 256>>

MaxUint32Bytes == <<255, 255, 255, 255>>

\* 0x04034b50, the signature of a local file header: one the scanner never
\* looks for
LOCAL_HEADER_SIGNATURE == CENTRAL_HEADER_SIGNATURE + 2 * 16777216 + 2 * 65536
OverlongBy == 40

\* 1..3 are valid headers; 4 carries another signature; 5 declares a name
\* longer than the bytes that follow it
HeaderKinds == 1..5
ValidKinds == 1..3

HeaderSpec(k) ==
    IF k = 1 THEN [sig |-> CENTRAL_HEADER_SIGNATURE, name |-> <<97>>,
                   nameLen |-> 1, extra |-> 0, comment |-> 0]
    ELSE IF k = 2 THEN [sig |-> CENTRAL_HEADER_SIGNATURE, name |-> <<195, 169, 46, 116>>,
                        nameLen |-> 4, extra |-> 1, comment |-> 0]
    ELSE IF k = 3 THEN [sig |-> CENTRAL_HEADER_SIGNATURE, name |-> <<98, 255>>,
                        nameLen |-> 2, extra |-> 0, comment |-> 2]
    ELSE IF k = 4 THEN [sig |-> LOCAL_HEADER_SIGNATURE, name |-> <<97>>,
                        nameLen |-> 1, extra |-> 0, comment |-> 0]
    ELSE [sig |-> CENTRAL_HEADER_SIGNATURE, name |-> <<99>>,
          nameLen |-> 1 + OverlongBy, extra |-> 0, comment |-> 0]

HeaderBytes(h) ==
    LE32(h.sig) \o Zeros(24) \o LE16(h.nameLen) \o LE16(h.extra) \o LE16(h.comment)
        \o Zeros(12) \o h.name \o Zeros(h.extra) \o Zeros(h.comment)

EocdBytes(sig, count, cdOffset, comment) ==
    LE32(sig) \o Zeros(6) \o LE16(count) \o Zeros(4) \o cdOffset
        \o LE16(Len(comment)) \o comment

RECURSIVE HeadersBytes(_)
HeadersBytes(kinds) ==
    IF kinds = <<>> THEN <<>>
    ELSE HeaderBytes(HeaderSpec(Head(kinds))) \o HeadersBytes(Tail(kinds))

PrefixBytes(p) ==
    IF p = "none" THEN <<>>
    ELSE IF p = "junk" THEN <<80, 75, 5>>
    ELSE EocdBytes(EOCD_SIGNATURE, 1, LE32(EOCD_MIN_SIZE), <<>>)   \* "eocd"

PostBytes(p) ==
    IF p = "none" THEN <<>>
    ELSE IF p = "short" THEN LE32(EOCD_SIGNATURE) \o <<0>>
    ELSE IF p = "eocd" THEN EocdBytes(EOCD_SIGNATURE, 0, LE32(0), <<>>)
    ELSE IF p = "header" THEN HeaderBytes(HeaderSpec(5))
    \* a header, then one cut short by the end of the file, ten bytes after
    \* its signature
    ELSE IF p = "stub"
    THEN HeaderBytes(HeaderSpec(1)) \o LE32(CENTRAL_HEADER_SIGNATURE) \o Zeros(10)
    ELSE IF p = "maxComment" THEN Zeros(MAX_COMMENT)
    ELSE Zeros(MAX_COMMENT + 1)                              \* "overComment"

CdOffsetOf(l) ==
    LET first == Len(PrefixBytes(l.prefix))
    IN  IF l.cdOffset = "first" THEN first
        ELSE IF l.cdOffset = "zero" THEN 0
        ELSE IF l.cdOffset = "inside" THEN first + 1
        ELSE first + Len(HeadersBytes(l.headers)) + EOCD_MIN_SIZE   \* "post"

CdOffsetBytes(l) ==
    IF l.cdOffset = "max" THEN MaxUint32Bytes ELSE LE32(CdOffsetOf(l))

ArchiveBytes(l) ==
    PrefixBytes(l.prefix) \o HeadersBytes(l.headers)
        \o EocdBytes(l.eocdSig, l.count, CdOffsetBytes(l), PostBytes(l.post))

RawBytes(l) == SubSeq(EocdBytes(EOCD_SIGNATURE, 0, LE32(0), <<>>), 1, l.count)

Layouts ==
    {l \in [kind : {"archive"}, prefix : {"none", "junk", "eocd"},
            headers : SeqsUpTo(HeaderKinds, MaxEntries),
            eocdSig : {EOCD_SIGNATURE, LOCAL_HEADER_SIGNATURE},
            count : 0..(MaxEntries + 1) \cup {65535},
            cdOffset : {"first", "zero", "inside", "post", "max"},
            post : {"none", "short", "eocd", "header", "stub"}] :
        /\ l.count \in {0, Len(l.headers), Len(l.headers) + 1, 65535}
        /\ l.eocdSig # EOCD_SIGNATURE =>
               l.count = Len(l.headers) /\ l.cdOffset = "first"
        /\ l.post = "stub" => l.prefix = "none" /\ l.cdOffset \in {"first", "post"}}
    \cup [kind : {"archive"}, prefix : {"none", "eocd"}, headers : {<<>>, <<1>>},
          eocdSig : {EOCD_SIGNATURE}, count : {1},
          cdOffset : {"first"}, post : {"maxComment", "overComment"}]
    \cup [kind : {"raw"}, prefix : {"none"}, headers : {<<>>},
          eocdSig : {EOCD_SIGNATURE}, count : 0..(EOCD_MIN_SIZE - 1),
          cdOffset : {"zero"}, post : {"none"}]
    \cup [kind : {"unreadable"}, prefix : {"none"}, headers : {<<>>},
          eocdSig : {EOCD_SIGNATURE}, count : {0},
          cdOffset : {"zero"}, post : {"none"}]

BlobOf(l) ==
    IF l.kind = "archive" THEN [readable |-> TRUE, bytes |-> ArchiveBytes(l)]
    ELSE IF l.kind = "raw" THEN [readable |-> TRUE, bytes |-> RawBytes(l)]
    ELSE [readable |-> FALSE, bytes |-> <<>>]

NoLayout ==
    [kind |-> "none", prefix |-> "none", headers |-> <<>>, eocdSig |-> 0,
     count |-> 0, cdOffset |-> "zero", post |-> "none"]

NoBlob == [readable |-> TRUE, bytes |-> <<>>]

(***************************************************************************)
(* The page: state, setStatus, reset and the parts of processFile          *)
(***************************************************************************)
STATES ==
    [IDLE |-> "idle", PROCESSING |-> "processing",
     SUCCESS |-> "success", ERROR |-> "error"]

Null == [kind |-> "null"]

\* let state = { status: STATES.IDLE, generatedBlob: null, outputFileName: '' },
\* with what the page shows: the list of names and the error message
InitialState ==
    [status |-> STATES.IDLE, generatedBlob |-> Null, outputFileName |-> <<>>,
     previewFiles |-> <<>>, errorMsg |-> ""]

\* script.js: only the part of the page that belongs to the new status is
\* rewritten
setStatus(st, newStatus, message, files) ==
    [st EXCEPT !.status = newStatus,
               !.previewFiles = IF newStatus = STATES.SUCCESS THEN files ELSE @,
               !.errorMsg = IF newStatus = STATES.ERROR THEN message ELSE @]

\* script.js
reset(st) ==
    setStatus([st EXCEPT !.generatedBlob = Null, !.outputFileName = <<>>],
              STATES.IDLE, "", <<>>)

\* Converter.tsx
resetState(st) ==
    [st EXCEPT !.status = STATES.IDLE, !.errorMsg = "", !.previewFiles = <<>>,
               !.generatedBlob = Null, !.outputFileName = <<>>]

\* processFile up to its try block
processFileBegins(i, st) ==
    IF i = "script"
    THEN setStatus(st, STATES.PROCESSING, "", <<>>)
    ELSE [st EXCEPT !.status = STATES.PROCESSING, !.errorMsg = "",
                    !.previewFiles = <<>>, !.generatedBlob = Null]

\* the drop and change listeners, once a file is there
fileArrives(i, st) ==
    IF i = "script" THEN processFileBegins(i, st)
    ELSE processFileBegins(i, resetState(st))

\* the reset and retry buttons
resetClicked(i, st) == IF i = "script" THEN reset(st) ELSE resetState(st)

\* the promise stays pending when the file read is empty
readFileAsTextNoElse(file) ==
    IF ~file.readable
    THEN [kind |-> "rejected", message |-> "File reading error", text |-> <<>>]
    ELSE IF file.content = <<>>
    THEN [kind |-> "pending", message |-> "", text |-> <<>>]
    ELSE [kind |-> "resolved", message |-> "", text |-> file.content]

\* onload: if (event.target?.result) resolve(...) else reject(...); onerror
readFileAsText(file) ==
    IF ~file.readable
    THEN [kind |-> "rejected", message |-> "File reading error", text |-> <<>>]
    ELSE IF file.content = <<>>
    THEN [kind |-> "rejected", message |-> "Failed to read file content",
          text |-> <<>>]
    ELSE [kind |-> "resolved", message |-> "", text |-> file.content]

\* err.message || "An unexpected error occurred..."
messageOf(i, message) ==
    IF message # "" THEN message
    ELSE IF i = "script" THEN "An unexpected error occurred."
    ELSE "An unexpected error occurred during conversion."

\* the catch block of processFile
processFileCatches(i, st, message) ==
    IF i = "script"
    THEN setStatus(st, STATES.ERROR, messageOf(i, message), <<>>)
    ELSE [st EXCEPT !.status = STATES.ERROR, !.errorMsg = messageOf(i, message)]

\* `${Date.now()}.zip`
zipName(timestamp) == <<timestamp, ".zip">>

\* an empty list taken for a failure
awaitGetZipFileListRejectsEmpty(zipBlob) ==
    LET r == getZipFileList([readable |-> TRUE, bytes |-> zipBlob.bytes])
    IN  [threw |-> r.settled = "rejected" \/ r.files = <<>>, files |-> r.files]

\* const files = await getZipFileList(zipBlob), on a blob just made from bytes
awaitGetZipFileList(zipBlob) ==
    LET r == getZipFileList([readable |-> TRUE, bytes |-> zipBlob.bytes])
    IN  [threw |-> r.settled = "rejected", files |-> r.files]

storeResultNameOnly(st, zipBlob, outputName) ==
    [st EXCEPT !.outputFileName = outputName]

\* state.generatedBlob = zipBlob; state.outputFileName = ...
\* setGeneratedBlob(zipBlob); setOutputFileName(outputName)
storeResult(st, zipBlob, outputName) ==
    [st EXCEPT !.generatedBlob = zipBlob, !.outputFileName = outputName]

\* the end of the try block of processFile
processFileSucceeds(i, st, zipBlob, outputName, files) ==
    IF i = "script"
    THEN setStatus(storeResult(st, zipBlob, outputName), STATES.SUCCESS, "", files)
    ELSE [storeResult(st, zipBlob, outputName) EXCEPT
             !.previewFiles = files, !.status = STATES.SUCCESS]

\* an invocation of processFile: where it is, and its local variables; "free"
\* is the place of an invocation that has not started or has returned
NoCall == [pc |-> "free", file |-> "", zipBlob |-> Null, outputName |-> <<>>]

funVars == <<textContent, origin, conv, blob, layout, scan>>

\* nothing of the page takes part
PageAtRest ==
    /\ impl = "script"
    /\ state = InitialState
    /\ calls = [k \in 1..MaxCalls |-> NoCall]
    /\ pickerOpen = FALSE

pageVars == <<impl, state, calls, pickerOpen>>

(***************************************************************************)
(* Specification of the reconstructor: a text is given, then converted.    *)
(***************************************************************************)
InitConv ==
    /\ \/ \E bytes \in SeqsUpTo(ByteSamples, MaxBytes) :
            \E cuts \in CutSets(Len(btoa(bytes))) :
              \E sep \in Separators :
                /\ textContent = Obfuscate(bytes, cuts, sep)
                /\ origin = [kind |-> "encoded", bytes |-> bytes,
                             cuts |-> cuts, sep |-> sep]
       \/ /\ textContent \in SeqsUpTo(TextChars, MaxText)
          /\ origin = Typed
    /\ conv = NoValue
    /\ blob = NoBlob
    /\ layout = NoLayout
    /\ scan = NoValue
    /\ PageAtRest

ConvertTextToZipBlob ==
    /\ conv = NoValue
    /\ conv' = convertTextToZipBlob(textContent)
    /\ UNCHANGED <<textContent, origin, blob, layout, scan>>
    /\ UNCHANGED pageVars

NextConv == ConvertTextToZipBlob

SpecConv == InitConv /\ [][NextConv]_vars

(***************************************************************************)
(* Specification of the scanner: a blob is given, then scanned.            *)
(***************************************************************************)
InitScan ==
    /\ layout \in Layouts
    /\ blob = BlobOf(layout)
    /\ textContent = <<>>
    /\ origin = Typed
    /\ conv = NoValue
    /\ scan = NoValue
    /\ PageAtRest

GetZipFileList ==
    /\ scan = NoValue
    /\ scan' = getZipFileList(blob)
    /\ UNCHANGED <<textContent, origin, conv, blob, layout>>
    /\ UNCHANGED pageVars

NextScan == GetZipFileList

SpecScan == InitScan /\ [][NextScan]_vars

(***************************************************************************)
(* Specification of the page: files arrive by the picker or by drop, each  *)
(* starts an invocation of processFile that goes on at the end of its      *)
(* timer, of the file read and of the scan.                                *)
(***************************************************************************)
\* one header named b and an undecodable byte, 65535 entries declared: the
\* directory ends before the count is reached
BrokenArchive ==
    ArchiveBytes([kind |-> "archive", prefix |-> "none", headers |-> <<3>>,
                  eocdSig |-> EOCD_SIGNATURE, count |-> 65535, cdOffset |-> "first",
                  post |-> "none"])

\* the archive as a text: in lines stored last line first
BrokenText == Obfuscate(BrokenArchive, {32, 64}, <<CR, LF>>)

\* The files the user can choose, by name, and what reading them gives: no
\* text at all, white space, "!!!!", "QUJD" (the bytes ABC, no archive), the
\* archive, and a file that cannot be read.
Files ==
    {"empty.txt", "blank.txt", "marks.txt", "abc.txt", "broken.txt",
     "unreadable.txt"}

FileOf(name) ==
    IF name = "unreadable.txt" THEN [readable |-> FALSE, content |-> <<>>]
    ELSE [readable |-> TRUE,
          content |->
            IF name = "empty.txt" THEN <<>>
            ELSE IF name = "blank.txt" THEN <<SPACE, LF>>
            ELSE IF name = "marks.txt" THEN <<33, 33, 33, 33>>
            ELSE IF name = "abc.txt" THEN <<81, 85, 74, 68>>
            ELSE BrokenText]

\* the values of Date.now()
Timestamps == {1, 2}

Running == {"timer", "reading", "scanning"}

\* the record of the next invocation: the first one that is free
NextCall ==
    CHOOSE k \in 1..MaxCalls :
        /\ calls[k].pc = "free"
        /\ \A j \in 1..(k - 1) : calls[j].pc # "free"

CanStart == \E k \in 1..MaxCalls : calls[k].pc = "free"

Started(file) == [NoCall EXCEPT !.pc = "timer", !.file = file]

Init ==
    /\ impl \in {"script", "react"}
    /\ state = InitialState
    /\ calls = [k \in 1..MaxCalls |-> NoCall]
    /\ pickerOpen = FALSE
    /\ textContent = <<>>
    /\ origin = Typed
    /\ conv = NoValue
    /\ blob = NoBlob
    /\ layout = NoLayout
    /\ scan = NoValue

\* a click on the drop zone opens the picker in the idle state only
DropZoneClick ==
    /\ state.status = STATES.IDLE
    /\ ~pickerOpen
    /\ pickerOpen' = TRUE
    /\ UNCHANGED <<impl, state, calls>>
    /\ UNCHANGED funVars

PickerCancelled ==
    /\ pickerOpen
    /\ pickerOpen' = FALSE
    /\ UNCHANGED <<impl, state, calls>>
    /\ UNCHANGED funVars

\* the change listener of the file input
Change(file) ==
    /\ pickerOpen
    /\ CanStart
    /\ pickerOpen' = FALSE
    /\ state' = fileArrives(impl, state)
    /\ calls' = [calls EXCEPT ![NextCall] = Started(file)]
    /\ UNCHANGED impl
    /\ UNCHANGED funVars

\* the drop listener
Drop(file) ==
    /\ CanStart
    /\ state' = fileArrives(impl, state)
    /\ calls' = [calls EXCEPT ![NextCall] = Started(file)]
    /\ UNCHANGED <<impl, pickerOpen>>
    /\ UNCHANGED funVars

\* await new Promise(resolve => setTimeout(resolve, 600)) ends
TimerFires(k) ==
    /\ calls[k].pc = "timer"
    /\ calls' = [calls EXCEPT ![k].pc = "reading"]
    /\ UNCHANGED <<impl, state, pickerOpen>>
    /\ UNCHANGED funVars

\* What convertTextToZipBlob makes of the texts that reading the files gives,
\* and what the scan gives for the blobs made: the values of the two
\* functions on the inputs of this specification, worked out once.
Reconstructions ==
    [text \in {readFileAsText(FileOf(name)).text : name \in Files} |->
        convertTextToZipBlob(text)]

Listings ==
    [zipBlob \in {Reconstructions[text] : text \in DOMAIN Reconstructions} |->
        IF zipBlob.kind = "blob" THEN awaitGetZipFileList(zipBlob)
        ELSE [threw |-> TRUE, files |-> <<>>]]

\* processFile from the end of the timer's await to the next await or to the
\* end: readFileAsText, convertTextToZipBlob, and for the component the name
afterRead(i, st, call, timestamp) ==
    LET read == readFileAsText(FileOf(call.file))
        zipBlob == Reconstructions[read.text]
    IN  IF read.kind = "rejected"
        THEN [state |-> processFileCatches(i, st, read.message), call |-> NoCall]
        ELSE IF zipBlob.kind = "error"
        THEN [state |-> processFileCatches(i, st, zipBlob.message), call |-> NoCall]
        ELSE [state |-> st,
              call |-> [call EXCEPT
                          !.pc = "scanning",
                          !.zipBlob = zipBlob,
                          !.outputName = IF i = "react" THEN zipName(timestamp)
                                         ELSE <<>>]]

\* processFile from the end of the scan's await to its end
afterScan(i, st, call, timestamp) ==
    LET scanned == Listings[call.zipBlob]
        outputName == IF i = "react" THEN call.outputName ELSE zipName(timestamp)
    IN  IF scanned.threw
        THEN processFileCatches(i, st, "")
        ELSE processFileSucceeds(i, st, call.zipBlob, outputName, scanned.files)

\* when the two awaits can end
ReadCanSettle(k) ==
    /\ calls[k].pc = "reading"
    /\ readFileAsText(FileOf(calls[k].file)).kind # "pending"

ScanCanSettle(k) == calls[k].pc = "scanning"

\* await readFileAsText(file) ends with onload or onerror
ReadSettles(k, timestamp) ==
    /\ ReadCanSettle(k)
    /\ state' = afterRead(impl, state, calls[k], timestamp).state
    /\ calls' = [calls EXCEPT ![k] = afterRead(impl, state, calls[k], timestamp).call]
    /\ UNCHANGED <<impl, pickerOpen>>
    /\ UNCHANGED funVars

\* await getZipFileList(zipBlob) ends; the result is stored and shown
ScanSettles(k, timestamp) ==
    /\ ScanCanSettle(k)
    /\ state' = afterScan(impl, state, calls[k], timestamp)
    /\ calls' = [calls EXCEPT ![k] = NoCall]
    /\ UNCHANGED <<impl, pickerOpen>>
    /\ UNCHANGED funVars

\* the buttons of the success and error views
ResetClick ==
    /\ state.status \in {STATES.SUCCESS, STATES.ERROR}
    /\ state' = resetClicked(impl, state)
    /\ UNCHANGED <<impl, calls, pickerOpen>>
    /\ UNCHANGED funVars

Next ==
    \/ DropZoneClick
    \/ PickerCancelled
    \/ \E file \in Files : Change(file)
    \/ \E file \in Files : Drop(file)
    \/ \E k \in 1..MaxCalls : TimerFires(k)
    \/ \E k \in 1..MaxCalls : \E timestamp \in Timestamps : ReadSettles(k, timestamp)
    \/ \E k \in 1..MaxCalls : \E timestamp \in Timestamps : ScanSettles(k, timestamp)
    \/ ResetClick

Spec == Init /\ [][Next]_vars

\* A timer fires, a file read ends with onload or onerror, and the bytes of a
\* blob in memory are delivered: weak fairness of the three steps of every
\* invocation.
Fairness ==
    \A k \in 1..MaxCalls :
        /\ WF_vars(TimerFires(k))
        /\ WF_vars(\E timestamp \in Timestamps : ReadSettles(k, timestamp))
        /\ WF_vars(\E timestamp \in Timestamps : ScanSettles(k, timestamp))

FairSpec == Spec /\ Fairness

(***************************************************************************)
(* Vocabulary of the properties, stated on the bytes and characters        *)
(* themselves.                                                             *)
(***************************************************************************)
Converted == conv # NoValue
Scanned == scan # NoValue

\* white space: space, tab, the line breaks and the other Unicode spaces
IsBlank(c) ==
    c \in {SPACE, TAB, LF, CR, VT, FF, NBSP, 5760, 8232, 8233, 8239, 8287, 12288, 65279}
            \cup (8192..8202)

InAlphabet(c) == c \in (65..90) \cup (97..122) \cup (48..57) \cup {PLUS, SLASH}

FailsEmpty == conv.kind = "error" /\ conv.message = EmptyMessage
FailsInvalid == conv.kind = "error" /\ conv.message = InvalidMessage

\* the string handed to the decoder
Stripped == base64StringOf(textContent)

\* RFC 4648 with mandatory padding: groups of four, '=' only as the last one
\* or two characters
IsPadded(str) ==
    /\ Len(str) % 4 = 0
    /\ Len(str) >= 4
    /\ \A k \in 1..(Len(str) - 2) : InAlphabet(str[k])
    /\ \/ InAlphabet(str[Len(str) - 1]) /\ InAlphabet(str[Len(str)])
       \/ InAlphabet(str[Len(str) - 1]) /\ str[Len(str)] = EQUALS
       \/ str[Len(str) - 1] = EQUALS /\ str[Len(str)] = EQUALS

\* alphabet characters only, the padding of the last group left out
IsUnpadded(str) ==
    /\ Len(str) % 4 \in {2, 3}
    /\ \A k \in 1..Len(str) : InAlphabet(str[k])

BufLen == Len(blob.bytes)

SignatureAt(o, b0, b1, b2, b3) ==
    /\ o >= 0
    /\ o + 4 <= BufLen
    /\ blob.bytes[o + 1] = b0
    /\ blob.bytes[o + 2] = b1
    /\ blob.bytes[o + 3] = b2
    /\ blob.bytes[o + 4] = b3

\* 50 4B 05 06
EocdAt(o) == SignatureAt(o, 80, 75, 5, 6)

\* the offsets of the search window that carry the EOCD signature
WindowMatches ==
    {o \in Max(0, BufLen - (MAX_COMMENT + EOCD_MIN_SIZE))..(BufLen - EOCD_MIN_SIZE) :
        EocdAt(o)}

Authoritative == CHOOSE o \in WindowMatches : \A p \in WindowMatches : p <= o

CountAt(o) == blob.bytes[o + 11] + 256 * blob.bytes[o + 12]

OffsetAt(o) ==
    [hi |-> blob.bytes[o + 19] + 256 * blob.bytes[o + 20],
     lo |-> blob.bytes[o + 17] + 256 * blob.bytes[o + 18]]

ReadsOf(kinds) == {k \in 1..Len(scan.reads) : scan.reads[k].what \in kinds}

HeaderReads == {"headerSignature", "fileNameLen", "extraFieldLen", "fileCommentLen", "name"}

\* the names of the valid headers, as text
ExpectedName(k) ==
    IF k = 1 THEN <<97>>                     \* a
    ELSE IF k = 2 THEN <<233, 46, 116>>      \* e-acute . t
    ELSE <<98, REPLACEMENT>>                 \* b, then the undecodable byte

\* n valid headers, then the EOCD that counts them and points at the first
WellFormed ==
    /\ layout.kind = "archive"
    /\ \A k \in 1..Len(layout.headers) : layout.headers[k] \in ValidKinds
    /\ layout.eocdSig = EOCD_SIGNATURE
    /\ layout.count = Len(layout.headers)
    /\ layout.cdOffset \in {"first", "zero"}
    /\ CdOffsetOf(layout) = Len(PrefixBytes(layout.prefix))
    /\ layout.post \in {"none", "short"}

(***************************************************************************)
(* C1 as stated: whatever the bytes, the empty sequence included, encoding *)
(* them, cutting the encoding into lines and storing the lines last first  *)
(* gives a text that converts back to the same bytes.                      *)
(***************************************************************************)
C1_RoundTripOfEveryByteSequence ==
    (Converted /\ origin.kind = "encoded")
        => (conv.kind = "blob" /\ conv.bytes = origin.bytes)

(***************************************************************************)
(* C1 amended: the round trip holds for every byte sequence that is not    *)
(* empty; the empty sequence encodes to the empty text, which is refused.  *)
(***************************************************************************)
C1_RoundTripOfNonEmptyBytes ==
    /\ (Converted /\ origin.kind = "encoded" /\ origin.bytes # <<>>)
          => (conv.kind = "blob" /\ conv.bytes = origin.bytes)
    /\ (Converted /\ origin.kind = "encoded" /\ origin.bytes = <<>>)
          => FailsEmpty

C1_Witness ==
    /\ Converted
    /\ origin.kind = "encoded"
    /\ Len(origin.bytes) = 4
    /\ Cardinality(origin.cuts) = 2
    /\ origin.sep = <<CR, LF>>
    /\ conv.kind = "blob"
    /\ conv.bytes = origin.bytes

(***************************************************************************)
(* C2: from a well-formed buffer the scan returns the names of all the     *)
(* headers, the i-th result being the name of the i-th header.             *)
(***************************************************************************)
C2_ListsEveryEntryInOrder ==
    (Scanned /\ WellFormed)
        => /\ Len(scan.files) = Len(layout.headers)
           /\ \A k \in 1..Len(layout.headers) :
                 scan.files[k] = ExpectedName(layout.headers[k])

C2_Witness ==
    /\ Scanned
    /\ WellFormed
    /\ layout.headers = <<3, 2>>
    /\ layout.prefix = "junk"
    /\ scan.files = <<ExpectedName(3), ExpectedName(2)>>

(***************************************************************************)
(* C3: the scan never fails: its promise is fulfilled with a sequence of   *)
(* names, never rejected, whatever the buffer.                             *)
(***************************************************************************)
C3_ScanNeverFails ==
    Scanned
        => /\ scan.settled = "fulfilled"
           /\ DOMAIN scan.files = 1..Len(scan.files)
           /\ scan.caught => scan.files = <<>>

C3_Witness ==
    /\ Scanned
    /\ layout.kind = "archive"
    /\ layout.cdOffset = "max"
    /\ layout.count = 65535
    /\ layout.headers # <<>>
    /\ scan.settled = "fulfilled"
    /\ scan.files = <<>>

(***************************************************************************)
(* C4: a text that is empty, or holds nothing but white space and line     *)
(* breaks, fails with the empty-input failure.                             *)
(***************************************************************************)
C4_BlankTextFailsEmpty ==
    (Converted /\ \A k \in 1..Len(textContent) : IsBlank(textContent[k]))
        => FailsEmpty

C4_Witness ==
    /\ Converted
    /\ Len(textContent) >= 3
    /\ \A k \in 1..Len(textContent) : IsBlank(textContent[k])
    /\ \E k \in 1..Len(textContent) : textContent[k] = CR
    /\ \E k \in 1..Len(textContent) : textContent[k] = NBSP
    /\ FailsEmpty

(***************************************************************************)
(* C5: a text with a character that is neither white space nor of the      *)
(* base64 alphabet nor '=' fails with the invalid-encoding failure, which  *)
(* is not the empty-input failure.                                         *)
(***************************************************************************)
C5_ForeignCharacterFailsInvalid ==
    (Converted /\ \E k \in 1..Len(textContent) :
                     /\ ~IsBlank(textContent[k])
                     /\ ~InAlphabet(textContent[k])
                     /\ textContent[k] # EQUALS)
        => (FailsInvalid /\ ~FailsEmpty)

C5_Witness ==
    /\ Converted
    /\ \E k \in 1..Len(textContent) : textContent[k] = 33
    /\ \E k \in 1..Len(textContent) : InAlphabet(textContent[k])
    /\ \E k \in 1..Len(textContent) : textContent[k] = LF
    /\ FailsInvalid

(***************************************************************************)
(* C6 as stated: every stripped string that is not padded RFC 4648 base64  *)
(* fails with the invalid-encoding failure.                                *)
(***************************************************************************)
C6_StrictDecoding ==
    (Converted /\ Stripped # <<>> /\ ~IsPadded(Stripped)) => FailsInvalid

(***************************************************************************)
(* C6 amended: every stripped string that is not padded RFC 4648 base64    *)
(* fails with the invalid-encoding failure, except one that only lacks its *)
(* padding (alphabet characters, length 2 or 3 mod 4): that one is decoded *)
(* to floor(6 * length / 8) bytes.                                         *)
(***************************************************************************)
C6_StrictButForMissingPadding ==
    /\ (Converted /\ Stripped # <<>> /\ ~IsPadded(Stripped) /\ ~IsUnpadded(Stripped))
          => FailsInvalid
    /\ (Converted /\ IsUnpadded(Stripped))
          => (conv.kind = "blob" /\ Len(conv.bytes) = (6 * Len(Stripped)) \div 8)

C6_Witness ==
    /\ Converted
    /\ Stripped = <<81, 81>>
    /\ conv.kind = "blob"
    /\ conv.bytes = <<65>>

(***************************************************************************)
(* C7: with two or more EOCD signatures in the search window, the entry    *)
(* count and the central directory offset are those of the highest one.    *)
(***************************************************************************)
C7_HighestSignatureWins ==
    (Scanned /\ blob.readable /\ Cardinality(WindowMatches) >= 2)
        => /\ scan.eocdOffset = Authoritative
           /\ scan.entriesCount = CountAt(Authoritative)
           /\ scan.centralDirOffset = OffsetAt(Authoritative)

C7_Witness ==
    /\ Scanned
    /\ Cardinality(WindowMatches) >= 2
    /\ layout.prefix = "eocd"
    /\ scan.eocdOffset = Authoritative
    /\ scan.entriesCount = 2
    /\ Len(scan.files) = 2

(***************************************************************************)
(* C8: when the EOCD declares more entries than the buffer holds, the scan *)
(* fails in no way and every name it returns is that of an entry lying     *)
(* wholly inside the buffer.                                               *)
(***************************************************************************)
C8_OnlyEntriesInsideTheBuffer ==
    (Scanned /\ scan.eocdOffset >= 0 /\ Len(scan.files) < scan.entriesCount)
        => /\ scan.settled = "fulfilled"
           /\ ~scan.caught
           /\ Len(scan.files) = Cardinality(ReadsOf({"name"}))
           /\ \A k \in ReadsOf({"name"}) : scan.reads[k].end <= BufLen

(***************************************************************************)
(* C9: a buffer without the EOCD signature at any offset gives the empty   *)
(* sequence, and nothing but candidate signatures is read.                 *)
(***************************************************************************)
C9_NoSignatureNoParsing ==
    (Scanned /\ blob.readable /\ \A o \in 0..(BufLen - 4) : ~EocdAt(o))
        => /\ scan.files = <<>>
           /\ ~scan.caught
           /\ scan.eocdOffset = -1
           /\ ReadsOf({"eocdSignature"}) = 1..Len(scan.reads)

C9_Witness ==
    /\ Scanned
    /\ \A o \in 0..(BufLen - 4) : ~EocdAt(o)
    /\ Len(layout.headers) = 2
    /\ \A k \in 1..Len(layout.headers) : layout.headers[k] \in ValidKinds
    /\ scan.files = <<>>
    /\ Len(scan.reads) > EOCD_MIN_SIZE

(***************************************************************************)
(* C10: when the authoritative EOCD declares no entry, the scan returns    *)
(* the empty sequence and reads no central directory header, wherever the  *)
(* central directory offset points.                                        *)
(***************************************************************************)
C10_NoEntryNoHeaderRead ==
    (Scanned /\ blob.readable /\ WindowMatches # {} /\ CountAt(Authoritative) = 0)
        => /\ scan.files = <<>>
           /\ ~scan.caught
           /\ ReadsOf(HeaderReads) = {}

C10_Witness ==
    /\ Scanned
    /\ layout.kind = "archive"
    /\ layout.eocdSig = EOCD_SIGNATURE
    /\ layout.count = 0
    /\ layout.cdOffset = "first"
    /\ layout.post = "none"
    /\ layout.headers # <<>>
    /\ layout.headers[1] \in ValidKinds
    /\ CountAt(Authoritative) = 0
    /\ scan.files = <<>>
(***************************************************************************)
(* Vocabulary of the claims about the search window and the walk           *)
(***************************************************************************)
WindowLow == Max(0, BufLen - (MAX_COMMENT + EOCD_MIN_SIZE))
WindowHigh == BufLen - EOCD_MIN_SIZE

\* the positions, in scan.reads, of the tests of EOCD candidates
EocdTests == ReadsOf({"eocdSignature"})

\* the lowest offset the search has to reach: the highest match, or the low
\* end of the window when nothing matches
LastTested == IF WindowMatches = {} THEN WindowLow ELSE Authoritative

(***************************************************************************)
(* C13: the candidates tested are the offsets len - 22, len - 23, ... in   *)
(* this order, none below max(0, len - 65557), down to the first match and *)
(* no further; without a match in the window the list is empty, and so it  *)
(* is for a buffer shorter than 22 bytes, of which no offset is tested.    *)
(***************************************************************************)
C13_SearchWindow ==
    (Scanned /\ blob.readable)
        => /\ EocdTests = 1..Cardinality(EocdTests)
           /\ \A k \in EocdTests :
                 /\ scan.reads[k].off = WindowHigh - (k - 1)
                 /\ scan.reads[k].off >= WindowLow
           /\ Cardinality(EocdTests) =
                 IF WindowHigh < WindowLow THEN 0 ELSE WindowHigh - LastTested + 1
           /\ scan.eocdOffset = IF WindowMatches = {} THEN -1 ELSE Authoritative
           /\ WindowMatches = {} => scan.files = <<>>
           /\ BufLen < EOCD_MIN_SIZE => EocdTests = {} /\ scan.files = <<>>

\* Three signatures: one in the last 21 bytes, never tested; the EOCD, found
\* after six tests; one below it, never reached.
C13_Witness ==
    /\ Scanned
    /\ layout.prefix = "eocd"
    /\ layout.post = "short"
    /\ EocdAt(BufLen - 5)
    /\ EocdAt(0)
    /\ scan.eocdOffset = BufLen - EOCD_MIN_SIZE - 5
    /\ scan.eocdOffset > 0
    /\ Cardinality(EocdTests) = 6

\* an EOCD followed by a comment of 65535 bytes is found at len - 65557, after
\* 65536 tests
C13_MaxCommentFound ==
    /\ Scanned
    /\ layout.post = "maxComment"
    /\ layout.headers = <<1>>
    /\ BufLen > MAX_COMMENT + EOCD_MIN_SIZE
    /\ EocdAt(BufLen - (MAX_COMMENT + EOCD_MIN_SIZE))
    /\ scan.eocdOffset = BufLen - (MAX_COMMENT + EOCD_MIN_SIZE)
    /\ Cardinality(EocdTests) = MAX_COMMENT + 1
    /\ scan.files = <<ExpectedName(1)>>

\* the position, among the headers of the layout, of the first one whose
\* signature is not that of a central directory header (0 if there is none)
FirstBadHeader ==
    LET bad == {k \in 1..Len(layout.headers) : layout.headers[k] = 4}
    IN  IF bad = {} THEN 0 ELSE CHOOSE k \in bad : \A j \in bad : k <= j

\* valid headers, then one with a foreign signature, in a directory that the
\* EOCD points at and counts up to that header at least
StopsAtBadSignature ==
    /\ layout.kind = "archive"
    /\ FirstBadHeader > 0
    /\ \A k \in 1..(FirstBadHeader - 1) : layout.headers[k] \in ValidKinds
    /\ layout.eocdSig = EOCD_SIGNATURE
    /\ layout.count >= FirstBadHeader
    /\ layout.cdOffset = "first"
    /\ layout.post \in {"none", "short", "header", "stub"}

\* the offset of the header with the foreign signature
BadHeaderOffset ==
    Len(PrefixBytes(layout.prefix))
        + Len(HeadersBytes(SubSeq(layout.headers, 1, FirstBadHeader - 1)))

(***************************************************************************)
(* C14: when the walk meets a header whose signature is not 0x02014B50,    *)
(* the result is the names of the headers before it, all of them and in    *)
(* order, and nothing of a header is read at or after that position but    *)
(* the four bytes of the signature.                                        *)
(***************************************************************************)
C14_BadSignatureKeepsThePrefix ==
    (Scanned /\ StopsAtBadSignature)
        => /\ Len(scan.files) = FirstBadHeader - 1
           /\ \A k \in 1..(FirstBadHeader - 1) :
                 scan.files[k] = ExpectedName(layout.headers[k])
           /\ scan.reads[Len(scan.reads)] =
                 Read("headerSignature", BadHeaderOffset, BadHeaderOffset + 4)
           /\ \A k \in ReadsOf(HeaderReads \ {"headerSignature"}) :
                 scan.reads[k].off < BadHeaderOffset

\* one name collected, then the foreign signature, with more entries declared
C14_Witness ==
    /\ Scanned
    /\ StopsAtBadSignature
    /\ FirstBadHeader = 2
    /\ layout.headers[1] = 2
    /\ layout.count > 2
    /\ scan.files = <<ExpectedName(2)>>
    /\ ~scan.caught

\* the positions, in scan.reads, of the extractions of a name, in the order
\* of the names returned
NameReads == ReadsOf({"name"})

\* the j-th smallest member of a set of positions
NthOf(S, j) == CHOOSE k \in S : Cardinality({i \in S : i <= k}) = j

\* the position in scan.reads of the j-th extraction of a name
NameRead(j) == NthOf(NameReads, j)

\* the name length field of the header a name was extracted for
DeclaredNameLength(k) ==
    LET cursor == scan.reads[k].off - HEADER_SIZE
    IN  blob.bytes[cursor + 29] + 256 * blob.bytes[cursor + 30]

(***************************************************************************)
(* C15 as stated: every name returned is the text of exactly `name length` *)
(* bytes of the buffer, those at cursor + 46 and after, also for a last    *)
(* header whose declared name length reaches past the end of the buffer.   *)
(***************************************************************************)
C15_NamesHaveTheDeclaredLength ==
    (Scanned /\ blob.readable)
        => /\ Cardinality(NameReads) = Len(scan.files)
           /\ \A j \in 1..Len(scan.files) :
                 LET r == scan.reads[NameRead(j)]
                 IN  /\ r.end - r.off = DeclaredNameLength(NameRead(j))
                     /\ r.end <= BufLen
                     /\ scan.files[j] = TextDecode(SubSeq(blob.bytes, r.off + 1, r.end))

\* the positions, in scan.reads, of the tests of a header signature: one for
\* each iteration of the walk that passed the bounds check
SignatureTests == ReadsOf({"headerSignature"})

\* the cursor of the j-th such iteration
CursorAt(j) == scan.reads[NthOf(SignatureTests, j)].off

Uint16At(o) == blob.bytes[o + 1] + 256 * blob.bytes[o + 2]

\* the size the header at a cursor declares
DeclaredSize(cursor) ==
    HEADER_SIZE + Uint16At(cursor + 28) + Uint16At(cursor + 30) + Uint16At(cursor + 32)

(***************************************************************************)
(* C16: the walk makes at most `entry count` iterations, from one          *)
(* iteration to the next the cursor grows by 46 plus the three lengths of  *)
(* the header, the names returned are at most min(entry count, len / 46),  *)
(* and the search tests at most 65536 offsets.                             *)
(***************************************************************************)
C16_WalkAndSearchAreBounded ==
    (Scanned /\ blob.readable)
        => /\ Cardinality(SignatureTests) <= scan.entriesCount
           /\ scan.entriesCount <= 65535
           /\ \A j \in 1..(Cardinality(SignatureTests) - 1) :
                 /\ CursorAt(j + 1) = CursorAt(j) + DeclaredSize(CursorAt(j))
                 /\ CursorAt(j + 1) >= CursorAt(j) + HEADER_SIZE
           /\ Len(scan.files) <= Min(scan.entriesCount, BufLen \div HEADER_SIZE)
           /\ Cardinality(EocdTests) <= MAX_COMMENT + 1

\* 65535 entries declared, two present: the length of the buffer ends the walk
C16_Witness ==
    /\ Scanned
    /\ scan.entriesCount = 65535
    /\ Len(scan.files) = 2
    /\ Cardinality(SignatureTests) = 2
    /\ CursorAt(2) = CursorAt(1) + DeclaredSize(CursorAt(1))
    /\ scan.reads[Len(scan.reads)].what = "name"
    /\ Len(scan.files) = BufLen \div HEADER_SIZE

\* the reads of two or four bytes through the DataView
ViewReads == ReadsOf({"eocdSignature", "entriesCount", "centralDirOffset",
                      "headerSignature", "fileNameLen", "extraFieldLen",
                      "fileCommentLen"})

(***************************************************************************)
(* C19: every read of two or four bytes lies inside the buffer, so that    *)
(* nothing the parsing does throws: the catch block gives the result only  *)
(* when the bytes of the blob could not be obtained.                       *)
(***************************************************************************)
C19_ReadsStayInsideTheBuffer ==
    Scanned
        => /\ \A k \in ViewReads :
                 /\ 0 <= scan.reads[k].off
                 /\ scan.reads[k].end <= BufLen
                 /\ scan.reads[k].end - scan.reads[k].off \in {2, 4}
           /\ scan.caught => ~blob.readable

\* a name collected, then a header cut short by the end of the buffer: the
\* name is kept
C19_Witness ==
    /\ Scanned
    /\ layout.post = "stub"
    /\ layout.cdOffset = "post"
    /\ scan.entriesCount >= 2
    /\ SignatureAt(BufLen - 14, 80, 75, 1, 2)
    /\ scan.files = <<ExpectedName(1)>>
    /\ Cardinality(SignatureTests) = 1
    /\ ~scan.caught

(***************************************************************************)
(* Vocabulary of the claims about the page                                 *)
(***************************************************************************)
\* what the file of an invocation holds, and what the conversion makes of it
TextOf(k) == FileOf(calls[k].file).content
Readable(k) == FileOf(calls[k].file).readable
Reconstructed(k) == Reconstructions[TextOf(k)]

\* the names in a blob
NamesIn(zipBlob) == getZipFileList([readable |-> TRUE, bytes |-> zipBlob.bytes]).files

NoneRunning == \A k \in 1..MaxCalls : calls[k].pc = "free"

(***************************************************************************)
(* C11: an invocation whose text the conversion accepts goes from the read *)
(* to the scan without touching the status, and from the scan to the       *)
(* success state, showing the names found, be there none.                  *)
(***************************************************************************)
C11_ScanNeverFailsTheFlow ==
    [][\A k \in 1..MaxCalls :
          (/\ calls[k].pc \in Running
           /\ calls'[k] # calls[k]
           /\ Readable(k)
           /\ Reconstructed(k).kind = "blob")
             => /\ calls[k].pc # "timer" \/ calls'[k].pc = "reading"
                /\ calls[k].pc = "reading"
                   => calls'[k].pc = "scanning" /\ state' = state
                /\ calls[k].pc = "scanning"
                   => /\ calls'[k].pc = "free"
                      /\ state'.status = STATES.SUCCESS
                      /\ state'.previewFiles = NamesIn(Reconstructed(k))]_vars

\* success with an empty list: bytes without an EOCD
C11_Witness ==
    /\ state.status = STATES.SUCCESS
    /\ state.generatedBlob # Null
    /\ state.generatedBlob.bytes = <<65, 66, 67>>
    /\ state.previewFiles = <<>>
    /\ NoneRunning

(***************************************************************************)
(* C12 as stated: when the conversion refuses the content of the file, the *)
(* invocation ends in the error state and the message shown is the one of  *)
(* the conversion, for an empty file too.                                  *)
(***************************************************************************)
C12_ReconstructorFailureIsShown ==
    [][\A k \in 1..MaxCalls :
          (/\ calls[k].pc = "reading"
           /\ calls'[k].pc # "reading"
           /\ Readable(k)
           /\ Reconstructed(k).kind = "error")
             => /\ state'.status = STATES.ERROR
                /\ state'.errorMsg = Reconstructed(k).message]_vars

\* the moves of the status that the four-state flow has
FlowOrder ==
    {<<STATES.IDLE, STATES.PROCESSING>>,
     <<STATES.PROCESSING, STATES.SUCCESS>>,
     <<STATES.PROCESSING, STATES.ERROR>>,
     <<STATES.SUCCESS, STATES.IDLE>>,
     <<STATES.ERROR, STATES.IDLE>>}

(***************************************************************************)
(* C17 as stated: whenever the status changes, it goes from idle to        *)
(* processing, from processing to success or error, or from success or     *)
(* error back to idle; success and error are entered from processing only. *)
(***************************************************************************)
C17_FourStateOrdering ==
    [][state'.status # state.status
          => <<state.status, state'.status>> \in FlowOrder]_vars

(***************************************************************************)
(* C18: every invocation that has started returns, and the page does not   *)
(* stay in the processing state: it comes to success or to error.          *)
(***************************************************************************)
C18_EveryConversionFinishes ==
    /\ \A k \in 1..MaxCalls : (calls[k].pc \in Running) ~> (calls[k].pc = "free")
    /\ (state.status = STATES.PROCESSING)
          ~> (state.status \in {STATES.SUCCESS, STATES.ERROR})

\* the read ended with onerror, and the invocation with the error state
C18_Witness ==
    /\ state.status = STATES.ERROR
    /\ state.errorMsg = "File reading error"
    /\ NoneRunning

(***************************************************************************)
(* C20: in the success state there is a stored blob, the output name is    *)
(* not empty, and the names shown are those found in the stored blob.      *)
(***************************************************************************)
C20_SuccessIsConsistent ==
    state.status = STATES.SUCCESS
        => /\ state.generatedBlob # Null
           /\ state.outputFileName # <<>>
           /\ state.previewFiles = NamesIn(state.generatedBlob)

\* a result is shown while another invocation, on another blob, is scanning
C20_Witness ==
    /\ state.status = STATES.SUCCESS
    /\ state.previewFiles = <<ExpectedName(3)>>
    /\ \E k \in 1..MaxCalls :
          /\ calls[k].pc = "scanning"
          /\ calls[k].zipBlob # state.generatedBlob

\* the invocations of processFile that have begun and not returned
InFlight == {k \in 1..MaxCalls : calls[k].pc \in Running}

(***************************************************************************)
(* C21 as stated: an invocation of processFile begins in the idle state    *)
(* only, and at no time are two invocations in flight.                     *)
(***************************************************************************)
C21_OneConversionInFlight ==
    [][/\ \A k \in 1..MaxCalls :
             calls[k].pc = "free" /\ calls'[k].pc \in Running
                => state.status = STATES.IDLE
       /\ Cardinality(InFlight') <= 1]_vars

(***************************************************************************)
(* C22 as stated: outside the success state no blob is stored and the      *)
(* output name is empty.                                                   *)
(***************************************************************************)
C22_NoStaleArtifact ==
    state.status # STATES.SUCCESS
        => /\ state.generatedBlob = Null
           /\ state.outputFileName = <<>>

====
